---- MODULE Spec2Model ----
(***************************************************************************)
(* Model of src/src/Stage.tsx: the Stage class (constructor, load,         *)
(* setState, beforePrompt, afterResponse, render) and the objects it       *)
(* shares with its host.                                                   *)
(*                                                                         *)
(* JavaScript values are records [t, n, s] (type tag, number, string) so   *)
(* that a number, a string, null and undefined stay distinct and           *)
(* comparable.  A JavaScript object is a function from its own keys to     *)
(* values.  Objects live in a heap and are named by references, because    *)
(* the constructor keeps the host's messageState object itself and         *)
(* setState builds a new object.                                           *)
(***************************************************************************)
EXTENDS Integers, FiniteSets, Sequences, TLC

VARIABLES
    data,              \* the InitialData the host passed to the constructor, as passed
    heap,              \* the live objects: reference -> object
    myInternalState,   \* this.myInternalState: a reference into heap
    activeCategory,    \* render's useState<string | null>
    call,              \* history: the last call, the working state and the open
                       \* category it found, its result
    seq,               \* history: the call before the last was a non-null setState
    restored,          \* history: someKey of the last message state that carried one
    phase              \* the host's place in the lifecycle, where the host keeps to it

vars == <<data, heap, myInternalState, activeCategory, call, seq, restored, phase>>

----------------------------------------------------------------------------
(* JavaScript values *)

Num(n) == [t |-> "number", n |-> n, s |-> ""]
Str(s) == [t |-> "string", n |-> 0, s |-> s]
Bool(b) == [t |-> "boolean", n |-> IF b THEN 1 ELSE 0, s |-> ""]
Null == [t |-> "null", n |-> 0, s |-> ""]
Undefined == [t |-> "undefined", n |-> 0, s |-> ""]
\* an object nobody looks into (a config, an initState, a chatState)
Opaque == [t |-> "object", n |-> 0, s |-> ""]

\* {}
EmptyObject == [k \in {} |-> Undefined]

\* obj[key]: undefined for a key the object does not have
Get(obj, key) == IF key \in DOMAIN obj THEN obj[key] ELSE Undefined

\* obj[key] = value
Put(obj, key, value) ==
    [k \in DOMAIN obj \cup {key} |-> IF k = key THEN value ELSE obj[k]]

SpreadReplace(a, b) == b

SpreadKeepFirst(a, b) ==
    [k \in DOMAIN a \cup DOMAIN b |-> IF k \in DOMAIN a THEN a[k] ELSE b[k]]

\* {...a, ...b}: the keys of both, b's value where both have the key
Spread(a, b) ==
    [k \in DOMAIN a \cup DOMAIN b |-> IF k \in DOMAIN b THEN b[k] ELSE a[k]]

----------------------------------------------------------------------------
(* Bounds and input sets *)

MaxUsers == 2
MaxChars == 1
\* the most keys a message state of the model carries
MaxKeys == 2

\* users / characters maps, by their ids
UserMaps == {1..n : n \in 0..MaxUsers}
CharMaps == {1..n : n \in 0..MaxChars}

Keys == {"someKey", "extra", "numUsers", "numChars"}

\* the values a message state coming from the host gives a key
KeyValues(k) ==
    CASE k = "someKey" -> {Str("x"), Str("y")}
      [] k = "extra" -> {Num(5)}
      [] OTHER -> {Num(7)}

\* non-null message states
MessageStates ==
    UNION {{f \in [D -> UNION {KeyValues(k) : k \in D}] :
              \A k \in D : f[k] \in KeyValues(k)} :
           D \in {E \in SUBSET Keys : Cardinality(E) <= MaxKeys}}

\* a Message with any of its fields missing
MessageFields == {"content", "anonymizedId", "isBot"}
FieldValue(k) ==
    CASE k = "content" -> Str("hello")
      [] k = "anonymizedId" -> Str("id")
      [] OTHER -> Bool(FALSE)
Messages == {[k \in D |-> FieldValue(k)] : D \in SUBSET MessageFields}

InitialData ==
    [users : UserMaps, characters : CharMaps,
     messageState : MessageStates \cup {Null},
     config : {Null, Opaque}, initState : {Null, Opaque}, chatState : {Null, Opaque}]

\* the inputs of the narrower specifications
FewMessageStates == {[someKey |-> Str("x"), extra |-> Num(5)], [extra |-> Num(5)]}
FewData ==
    {d \in InitialData :
        /\ d.messageState \in FewMessageStates \cup {Null}
        /\ d.config = Null /\ d.initState = Null /\ d.chatState = Null}
FewArguments == {Null, [someKey |-> Str("y")]}
FewMessages == {m \in Messages : DOMAIN m \in {{}, MessageFields}}

----------------------------------------------------------------------------
(* The heap *)

\* where the host's messageState object lives when it is not null
HostRef == 1
Refs == {1, 2, 3}

\* the objects the host goes on holding whatever the controller does
HostObjects == IF data.messageState # Null THEN {HostRef} ELSE {}

\* an object literal: the first reference no live object has
NewRef(live) == CHOOSE r \in Refs \ live : \A q \in Refs \ live : r <= q

\* the working state, as an object
State == heap[myInternalState]

----------------------------------------------------------------------------
(* The panel's categories and the keys each shows, in display order *)

CategoryDetails ==
    <<
       <<"Body Details", <<"appearance", "weight", "muscles", "bmi", "bust", "waist", "hips", "chest", "shoulderWidth", "neckSize", "armSleeveLength", "upperArmCircumference", "wristCircumference", "ankleCircumference", "highAnkleCircumference", "napeToWaist", "frontShoulderToWaist", "armscyeDepth", "waistToKnee", "waistToHip", "waistToFloor", "bodyRise", "inseam", "skinTone", "skinType", "bodyFreckles", "vaginaDescription", "vaginaTightness", "penisDescription", "penisSize", "balls", "ballSize", "height", "shoulderWidth", "breastSize", "nippleSize", "assSize", "hipSize", "thighSize", "fingerNails", "toeNails">>>>,
       <<"Facial Details", <<"hairLength", "hairColor", "hairStyle", "hairType", "fringe", "currentHairAccessory", "hairRibbons", "hairBeads", "hairBows", "hairClips", "hairAccessoryColor", "eyeColor", "faceFreckles", "lipSize", "ears">>>>,
       <<"Makeup and Grooming", <<"lipMakeupColor", "lipMakeupStyle", "lipGlitter", "lipLiner", "eyeshadowColor", "eyeshadowStyle", "eyelinerColor", "eyelinerStyle", "eyeGlitter", "fakeLashStyle", "mascaraStyle", "blushColor", "blushStyle", "cheekGlitter", "cheekHighlighter", "facePaintStyle", "bodyPaintStyle", "bodyGlitter">>>>,
       <<"Hygiene", <<"bodyScent", "breathScent", "bodySweat", "bodyCum", "hairCum", "clothingCum", "underwearCum">>>>,
       <<"Misc", <<"fingernails", "toenails">>>>,
       <<"Cum Production Details", <<"producingCum", "cumLevel", "cumMaximumCap", "cumGainAverage", "cumConsistency">>>>,
       <<"Milk Production Details", <<"producingMilk", "milkLevel", "milkMaximumCap", "milkGainAverage", "milkConsistency">>>>,
       <<"Squirt Production Details (Vagina Discharge During Orgasm)", <<"producingSquirt", "squirtLevel", "squirtMaximumCap", "squirtGainAverage", "squirtConsistency">>>>,
       <<"Clothing Details", <<"clothingWorn", "underwearWorn", "neckwear", "neckwearLocked", "buttPlugWorn", "currentlyWornMainChastityDevice">>>>
    >>

Categories == {CategoryDetails[i][1] : i \in DOMAIN CategoryDetails}

----------------------------------------------------------------------------
(* Operations *)

\* Object.keys(m).length
KeyCount(m) == Cardinality(m)

ConstructedSwapped(d) ==
    LET start == IF d.messageState # Null THEN d.messageState
                 ELSE [someKey |-> Str("someValue")]
        withUsers == Put(start, "numUsers", Num(KeyCount(d.characters)))
    IN  Put(withUsers, "numChars", Num(KeyCount(d.users)))

ConstructedKeepsCounters(d) ==
    LET start == IF d.messageState # Null THEN d.messageState
                 ELSE [someKey |-> Str("someValue")]
        counters == [numUsers |-> Num(KeyCount(d.users)),
                     numChars |-> Num(KeyCount(d.characters))]
    IN  [k \in DOMAIN start \cup DOMAIN counters |->
            IF k \in DOMAIN start THEN start[k] ELSE counters[k]]

\* constructor: the object this.myInternalState names once lines 147-151 have run
Constructed(d) ==
    LET start == IF d.messageState # Null THEN d.messageState
                 ELSE [someKey |-> Str("someValue")]
        withUsers == Put(start, "numUsers", Num(KeyCount(d.users)))
    IN  Put(withUsers, "numChars", Num(KeyCount(d.characters)))

\* new Stage(d): a non-null d.messageState is the object at HostRef, and
\* this.myInternalState names that same object; the default seed is a new object
Construct(d) ==
    /\ data = d
    /\ myInternalState = (IF d.messageState # Null THEN HostRef ELSE NewRef({}))
    /\ heap = [r \in {myInternalState} |-> Constructed(d)]
    /\ activeCategory = Null
    /\ call = [op |-> "constructor", arg |-> Null, pre |-> EmptyObject,
               shown |-> Null, ret |-> Undefined, threw |-> FALSE]
    /\ seq = FALSE
    /\ restored = IF d.messageState # Null THEN Get(d.messageState, "someKey")
                  ELSE Str("someValue")
    /\ phase = "Constructed"

Init == \E d \in FewData : Construct(d)

\* the record of a call
Called(op, arg, ret, threw) ==
    /\ call' = [op |-> op, arg |-> arg, pre |-> State, shown |-> activeCategory,
                ret |-> ret, threw |-> threw]
    /\ seq' = (call.op = "setState" /\ call.arg # Null)

LoadResponseEchoes ==
    [success |-> TRUE, error |-> Null,
     initState |-> data.initState, chatState |-> data.chatState]

LoadResponse ==
    [success |-> TRUE, error |-> Null, initState |-> Null, chatState |-> Null]

Load ==
    /\ Called("load", Undefined, LoadResponse, FALSE)
    /\ UNCHANGED <<data, heap, myInternalState, activeCategory, restored>>

SetStateCopiesAlways(state) ==
    /\ LET r == NewRef(HostObjects \cup {myInternalState})
           s == IF state # Null THEN state ELSE EmptyObject
       IN  /\ heap' = [q \in HostObjects \cup {r} |->
                         IF q = r THEN Spread(State, s) ELSE heap[q]]
           /\ myInternalState' = r
    /\ Called("setState", state, Undefined, FALSE)
    /\ restored' = IF state # Null /\ "someKey" \in DOMAIN state
                   THEN state["someKey"] ELSE restored
    /\ UNCHANGED <<data, activeCategory>>

SetState(state) ==
    /\ IF state # Null
       THEN LET r == NewRef(HostObjects \cup {myInternalState})
            IN  /\ heap' = [q \in HostObjects \cup {r} |->
                              IF q = r THEN Spread(State, state) ELSE heap[q]]
                /\ myInternalState' = r
       ELSE UNCHANGED <<heap, myInternalState>>
    /\ Called("setState", state, Undefined, FALSE)
    /\ restored' = IF state # Null /\ "someKey" \in DOMAIN state
                   THEN state["someKey"] ELSE restored
    /\ UNCHANGED <<data, activeCategory>>

DestructureThrowsOnMissing(message) ==
    message \in {Null, Undefined} \/ DOMAIN message # MessageFields

\* const {content, anonymizedId, isBot} = message: a TypeError for null or
\* undefined, undefined for a field the message does not have
DestructureThrows(message) == message \in {Null, Undefined}

StageResponseWhole ==
    [stageDirections |-> Null,
     messageState |-> State,
     modifiedMessage |-> Null,
     systemMessage |-> Null,
     error |-> Null,
     chatState |-> Null]

StageResponseShowsExtra ==
    [stageDirections |-> Null,
     messageState |-> [someKey |-> Get(State, "someKey")],
     modifiedMessage |-> Null,
     systemMessage |-> Get(State, "extra"),
     error |-> Null,
     chatState |-> Null]

StageResponse ==
    [stageDirections |-> Null,
     messageState |-> [someKey |-> Get(State, "someKey")],
     modifiedMessage |-> Null,
     systemMessage |-> Null,
     error |-> Null,
     chatState |-> Null]

BeforePromptWrites(userMessage) ==
    /\ heap' = [heap EXCEPT ![myInternalState] =
                  Put(State, "lastMessage", Get(userMessage, "content"))]
    /\ Called("beforePrompt", userMessage, StageResponse, FALSE)
    /\ UNCHANGED <<data, myInternalState, activeCategory, restored>>

BeforePrompt(userMessage) ==
    /\ IF DestructureThrows(userMessage)
       THEN Called("beforePrompt", userMessage, Undefined, TRUE)
       ELSE Called("beforePrompt", userMessage, StageResponse, FALSE)
    /\ UNCHANGED <<data, heap, myInternalState, activeCategory, restored>>

AfterResponse(botMessage) ==
    /\ IF DestructureThrows(botMessage)
       THEN Called("afterResponse", botMessage, Undefined, TRUE)
       ELSE Called("afterResponse", botMessage, StageResponse, FALSE)
    /\ UNCHANGED <<data, heap, myInternalState, activeCategory, restored>>

\* renderDetail(label, value), by the value it shows
RenderDetail(key) == Get(State, key)

RenderCategoryAnyActive(categoryName, detailKeys) ==
    LET isCategoryActive == activeCategory # Null
    IN  [name |-> categoryName,
         button |-> IF isCategoryActive THEN "Hide" ELSE categoryName,
         details |-> IF isCategoryActive
                     THEN [i \in DOMAIN detailKeys |-> RenderDetail(detailKeys[i])]
                     ELSE << >>]

\* renderCategory(categoryName, details)
RenderCategory(categoryName, detailKeys) ==
    LET isCategoryActive == activeCategory = Str(categoryName)
    IN  [name |-> categoryName,
         button |-> IF isCategoryActive THEN "Hide" ELSE categoryName,
         details |-> IF isCategoryActive
                     THEN [i \in DOMAIN detailKeys |-> RenderDetail(detailKeys[i])]
                     ELSE << >>]

Render ==
    /\ Called("render", Undefined,
              [i \in DOMAIN CategoryDetails |->
                  RenderCategory(CategoryDetails[i][1], CategoryDetails[i][2])],
              FALSE)
    /\ UNCHANGED <<data, heap, myInternalState, activeCategory, restored>>

\* onClick of the button of a category that is not shown
ClickCategory(categoryName) ==
    /\ activeCategory # Str(categoryName)
    /\ activeCategory' = Str(categoryName)
    /\ Called("setActiveCategory", Str(categoryName), Undefined, FALSE)
    /\ UNCHANGED <<data, heap, myInternalState, restored>>

\* onClick of the Hide button of the category that is shown
ClickHide(categoryName) ==
    /\ activeCategory = Str(categoryName)
    /\ activeCategory' = Null
    /\ Called("setActiveCategory", Null, Undefined, FALSE)
    /\ UNCHANGED <<data, heap, myInternalState, restored>>

----------------------------------------------------------------------------
(* Specifications *)

\* the controller's hooks, in any order, over every message state and message
\* of the model
Next ==
    \/ Load /\ UNCHANGED phase
    \/ \E state \in MessageStates \cup {Null} : SetState(state) /\ UNCHANGED phase
    \/ \E userMessage \in Messages : BeforePrompt(userMessage) /\ UNCHANGED phase
    \/ \E botMessage \in Messages : AfterResponse(botMessage) /\ UNCHANGED phase

Spec == Init /\ [][Next]_vars

\* every construction input of the model, followed by a few calls
InitAnyData == \E d \in InitialData : Construct(d)

NextFewCalls ==
    \/ Load /\ UNCHANGED phase
    \/ \E state \in FewArguments : SetState(state) /\ UNCHANGED phase
    \/ \E userMessage \in FewMessages : BeforePrompt(userMessage) /\ UNCHANGED phase
    \/ \E botMessage \in FewMessages : AfterResponse(botMessage) /\ UNCHANGED phase

SpecInputs == InitAnyData /\ [][NextFewCalls]_vars

\* the hooks and the panel together
NextPanel ==
    \/ Load /\ UNCHANGED phase
    \/ \E state \in FewArguments : SetState(state) /\ UNCHANGED phase
    \/ \E userMessage \in FewMessages : BeforePrompt(userMessage) /\ UNCHANGED phase
    \/ \E botMessage \in FewMessages : AfterResponse(botMessage) /\ UNCHANGED phase
    \/ Render /\ UNCHANGED phase
    \/ \E categoryName \in Categories : ClickCategory(categoryName) /\ UNCHANGED phase
    \/ \E categoryName \in Categories : ClickHide(categoryName) /\ UNCHANGED phase

SpecPanel == Init /\ [][NextPanel]_vars

\* the host keeping to the lifecycle the hooks' comments describe: load right
\* after the constructor, then beforePrompt when the user sends and
\* afterResponse when the model has answered, in turn, with setState at any
\* time after load
PostLoaded == {"Loaded", "AwaitingUser", "AwaitingResponse"}

HostLoad ==
    /\ phase = "Constructed"
    /\ Load
    /\ phase' = "Loaded"

HostSetState(state) ==
    /\ phase \in PostLoaded
    /\ SetState(state)
    /\ UNCHANGED phase

HostBeforePrompt(userMessage) ==
    /\ phase \in {"Loaded", "AwaitingUser"}
    /\ BeforePrompt(userMessage)
    /\ phase' = "AwaitingResponse"

HostAfterResponse(botMessage) ==
    /\ phase = "AwaitingResponse"
    /\ AfterResponse(botMessage)
    /\ phase' = "AwaitingUser"

NextTurns ==
    \/ HostLoad
    \/ \E state \in MessageStates \cup {Null} : HostSetState(state)
    \/ \E userMessage \in FewMessages : HostBeforePrompt(userMessage)
    \/ \E botMessage \in FewMessages : HostAfterResponse(botMessage)

SpecTurns == Init /\ [][NextTurns]_vars

----------------------------------------------------------------------------
(* Properties *)

Counters == {"numUsers", "numChars"}
TurnHooks == {"beforePrompt", "afterResponse"}

\* C1: setState(s) with non-null s merges shallowly: the working state's keys
\* become its previous keys together with the keys of s, every key of s has
\* the value s gives it, and every other key keeps the value it had.
C1_SetStateMerges ==
    (call.op = "setState" /\ call.arg # Null) =>
        /\ DOMAIN State = DOMAIN call.pre \cup DOMAIN call.arg
        /\ \A k \in DOMAIN call.arg : State[k] = call.arg[k]
        /\ \A k \in DOMAIN call.pre \ DOMAIN call.arg : State[k] = call.pre[k]

\* a merge that adds a key, overrides a key and keeps a key
C1_Witness ==
    /\ call.op = "setState" /\ call.arg # Null
    /\ DOMAIN call.arg \ DOMAIN call.pre # {}
    /\ DOMAIN call.pre \ DOMAIN call.arg # {}
    /\ \E k \in DOMAIN call.arg \cap DOMAIN call.pre : call.pre[k] # call.arg[k]

\* C2: after setState(s1) then setState(s2), both non-null, every key of s1 or
\* s2 has s2's value if s2 has the key and s1's value otherwise, and the
\* working state is the one the single call setState({...s1, ...s2}) leaves:
\* the keys that were there before the first call, unchanged unless s1 or s2
\* has them.
C2_SuccessiveSetStates ==
    [][(/\ call.op = "setState" /\ call.arg # Null
        /\ call'.op = "setState" /\ call'.arg # Null) =>
          LET s1 == call.arg
              s2 == call'.arg
              before == call.pre
              after == heap'[myInternalState']
          IN  /\ \A k \in DOMAIN s1 \cup DOMAIN s2 :
                    /\ k \in DOMAIN after
                    /\ after[k] = IF k \in DOMAIN s2 THEN s2[k] ELSE s1[k]
              /\ DOMAIN after = DOMAIN before \cup DOMAIN s1 \cup DOMAIN s2
              /\ \A k \in DOMAIN before \ (DOMAIN s1 \cup DOMAIN s2) :
                    after[k] = before[k]]_vars

\* the second of two successive non-null setState calls has overridden someKey
C2_Witness ==
    /\ seq /\ call.op = "setState" /\ call.arg # Null
    /\ data.messageState = Null
    /\ "someKey" \in DOMAIN call.arg
    /\ call.pre["someKey"] = Str("x") /\ State["someKey"] = Str("y")
    /\ "extra" \in DOMAIN State

\* C3: setState(null) changes nothing: this.myInternalState names the same
\* object, every object has the keys and values it had, and the call does not
\* throw.
C3_SetStateNullNoOp ==
    [][(call'.op = "setState" /\ call'.arg = Null) =>
          /\ myInternalState' = myInternalState
          /\ heap' = heap
          /\ ~call'.threw]_vars

\* setState(null) right after a merge built a new working state
C3_Witness ==
    /\ call.op = "setState" /\ call.arg = Null /\ seq
    /\ myInternalState # HostRef
    /\ "extra" \in DOMAIN State

\* C4: construction with messageState = null leaves exactly the keys someKey,
\* numUsers and numChars, with someKey = 'someValue' and the counters equal to
\* the numbers of user and character ids.
C4_ConstructFromNull ==
    (call.op = "constructor" /\ data.messageState = Null) =>
        /\ DOMAIN State = {"someKey", "numUsers", "numChars"}
        /\ State["someKey"] = Str("someValue")
        /\ State["numUsers"] = Num(Cardinality(data.users))
        /\ State["numChars"] = Num(Cardinality(data.characters))

\* the scenario: two users, one character, no message state
C4_Witness ==
    /\ call.op = "constructor" /\ data.messageState = Null
    /\ Cardinality(data.users) = 2 /\ Cardinality(data.characters) = 1

\* C5: construction with a non-null messageState m keeps every key of m other
\* than the counters with m's value, has someKey only if m has it, and sets
\* numUsers and numChars to the numbers of user and character ids whatever m
\* says about them.
C5_ConstructFromState ==
    (call.op = "constructor" /\ data.messageState # Null) =>
        LET m == data.messageState
        IN  /\ \A k \in DOMAIN m \ Counters : k \in DOMAIN State /\ State[k] = m[k]
            /\ "someKey" \in DOMAIN State <=> "someKey" \in DOMAIN m
            /\ DOMAIN State = DOMAIN m \cup Counters
            /\ State["numUsers"] = Num(Cardinality(data.users))
            /\ State["numChars"] = Num(Cardinality(data.characters))

\* m carries a counter that differs from the count, an extra key and no someKey
C5_Witness ==
    /\ call.op = "constructor" /\ data.messageState # Null
    /\ DOMAIN data.messageState = {"extra", "numUsers"}
    /\ data.messageState["numUsers"] # Num(Cardinality(data.users))

\* C6: the messageState beforePrompt and afterResponse return has the one key
\* someKey, whose value is the working state's someKey: that of the last
\* non-null setState argument that had the key, else the one construction
\* left.
C6_EchoesOnlySomeKey ==
    (call.op \in TurnHooks) =>
        /\ DOMAIN call.ret.messageState = {"someKey"}
        /\ call.ret.messageState["someKey"] = Get(State, "someKey")
        /\ call.ret.messageState["someKey"] = restored

\* a turn hook after a setState changed someKey, with other keys in the state
C6_Witness ==
    /\ call.op = "beforePrompt"
    /\ data.messageState # Null /\ Get(data.messageState, "someKey") = Str("x")
    /\ restored = Str("y")
    /\ "extra" \in DOMAIN State

\* C7: beforePrompt and afterResponse do not throw whatever fields the message
\* lacks, return a messageState that is an object with the key someKey at the
\* working state's value, and return error = null.
C7_TurnHooksTotal ==
    (call.op \in TurnHooks) =>
        /\ ~call.threw
        /\ call.ret # Undefined
        /\ call.ret.messageState \notin {Null, Undefined}
        /\ "someKey" \in DOMAIN call.ret.messageState
        /\ call.ret.messageState["someKey"] = Get(State, "someKey")
        /\ call.ret.error = Null

\* afterResponse on a message with no field at all
C7_Witness ==
    /\ call.op = "afterResponse" /\ call.arg = EmptyObject
    /\ ~call.threw

\* C8: load returns success = true, error = null, initState = null and
\* chatState = null for every construction input and at every point.
C8_LoadSucceeds ==
    (call.op = "load") =>
        /\ ~call.threw
        /\ call.ret.success = TRUE
        /\ call.ret.error = Null
        /\ call.ret.initState = Null
        /\ call.ret.chatState = Null

\* load called a second time, after a setState, on non-null scopes and config
C8_Witness ==
    /\ call.op = "load" /\ seq
    /\ data.initState # Null /\ data.chatState # Null /\ data.config # Null
    /\ data.messageState # Null
    /\ data.users = {} /\ data.characters = {}

\* C9: the counters go into the controller's own copy only: the messageState
\* object the host passed still has the keys and values the host gave it.
C9_HostStateUntouched ==
    (data.messageState # Null) => heap[HostRef] = data.messageState

\* C10: load, beforePrompt, afterResponse and render leave the working state
\* as it is: the same object, with the keys and values it had.
C10_OnlySetStateWrites ==
    [][(call'.op \in {"load", "beforePrompt", "afterResponse", "render"}) =>
          /\ myInternalState' = myInternalState
          /\ heap' = heap]_vars

\* a render of an open category over a working state that setState has merged
C10_Witness ==
    /\ call.op = "render" /\ activeCategory # Null
    /\ myInternalState # HostRef
    /\ State["someKey"] = Str("y")

\* what render shows of a category: its details and the Hide button
Shown(categoryName) == RenderCategory(categoryName, << >>).button = "Hide"

\* the category a click is about: the one opened, or the one hidden
Clicked == IF call.arg # Null THEN call.arg ELSE call.shown

\* C11 (as claimed): the categories toggle independently: a click on one
\* category's button leaves every other category shown or hidden as it was.
C11_IndependentToggles ==
    (call.op = "setActiveCategory") =>
        \A c \in Categories :
            Str(c) # Clicked => (Shown(c) <=> call.shown = Str(c))

\* C11 (amended): at most one category is shown at a time: opening a category
\* shows it and hides every other, and Hide leaves no category shown.
C11_OneCategoryAtATime ==
    /\ Cardinality({c \in Categories : Shown(c)}) <= 1
    /\ (call.op = "setActiveCategory" /\ call.arg # Null) =>
          \A c \in Categories : Shown(c) <=> Str(c) = call.arg
    /\ (call.op = "setActiveCategory" /\ call.arg = Null) =>
          \A c \in Categories : ~Shown(c)

\* a category opened while another one was shown
C11_Witness ==
    /\ call.op = "setActiveCategory" /\ call.arg # Null
    /\ call.shown \notin {Null, call.arg}
    /\ Shown("Hygiene") /\ ~Shown("Body Details")
    /\ call.shown = Str("Body Details")

\* a turn hook's response but for the messageState it echoes
NoOpResponse ==
    [stageDirections |-> Null, modifiedMessage |-> Null, systemMessage |-> Null,
     error |-> Null, chatState |-> Null]

\* C12: in Constructed -> Loaded -> (AwaitingUser <-> AwaitingResponse),
\* setState at any point after load changes the working state only and leaves
\* the turn phase as it was; the turn hook called next does what it does
\* without the setState: it does not throw, leaves the working state alone,
\* moves to the other turn phase, and returns the same response but for the
\* someKey it echoes.
C12_SetStateKeepsTurn ==
    [][/\ (call'.op = "setState") =>
             /\ phase \in PostLoaded /\ phase' = phase
             /\ data' = data /\ activeCategory' = activeCategory
       /\ (call'.op \in TurnHooks) =>
             /\ ~call'.threw
             /\ heap' = heap /\ myInternalState' = myInternalState
             /\ phase' = (IF call'.op = "beforePrompt" THEN "AwaitingResponse"
                          ELSE "AwaitingUser")
             /\ [f \in DOMAIN call'.ret \ {"messageState"} |-> call'.ret[f]]
                  = NoOpResponse
             /\ call'.ret.messageState = [someKey |-> Get(State, "someKey")]]_vars

\* afterResponse right after a setState that came between the two turn hooks
\* and changed someKey and another key
C12_Witness ==
    /\ call.op = "afterResponse" /\ seq
    /\ phase = "AwaitingUser"
    /\ data.messageState # Null /\ Get(data.messageState, "someKey") = Str("x")
    /\ call.ret.messageState["someKey"] = Str("y")
    /\ State["numUsers"] = Num(7)

\* Object.keys(users).length and Object.keys(characters).length, as values
Count(k) ==
    IF k = "numUsers" THEN Num(Cardinality(data.users))
    ELSE Num(Cardinality(data.characters))

\* C13 (as claimed): in every state the working state's numUsers is the number
\* of user ids and its numChars the number of character ids.
C13_CountersAlwaysCounts ==
    \A k \in Counters : Get(State, k) = Count(k)

\* C13 (amended): construction sets each counter to its count, and a counter
\* that equals its count still does after every call except a non-null
\* setState whose argument carries that counter's key, which gives the counter
\* the argument's value.
C13_CountersUntilOverridden ==
    /\ [](call.op = "constructor" => \A k \in Counters : Get(State, k) = Count(k))
    /\ [][\A k \in Counters :
            LET carried == /\ call'.op = "setState" /\ call'.arg # Null
                           /\ k \in DOMAIN call'.arg
                after == Get(heap'[myInternalState'], k)
            IN  /\ (Get(State, k) = Count(k) /\ ~carried) => after = Count(k)
                /\ carried => after = call'.arg[k]]_vars

\* a setState whose argument carries numChars and not numUsers: numUsers is
\* still the count, numChars is the argument's
C13_Witness ==
    /\ call.op = "setState" /\ call.arg # Null
    /\ "numChars" \in DOMAIN call.arg /\ "numUsers" \notin DOMAIN call.arg
    /\ call.pre["numChars"] = Count("numChars")
    /\ State["numUsers"] = Count("numUsers")
    /\ State["numChars"] = Num(7) /\ State["numChars"] # Count("numChars")

====
